---------------------------- MODULE Spec2Model ----------------------------
(***************************************************************************)
(* Model of the route-optimization and emission-estimation engine:         *)
(*   route_optimizer.py  EmissionCalculator, RouteOptimizer                *)
(*   api_clients.py      TomTomAPI, WeatherAPI (fallback on failure)       *)
(*   app.py              DynamicRoutingSystem.plan_route                   *)
(*   models.py           Vehicle, Location, RouteSegment, Route            *)
(*                                                                         *)
(* Python floats are modelled as exact rationals [num, den] in lowest      *)
(* terms with den > 0.  A Python list index i is the sequence index i+1.   *)
(* A call that may raise yields [exc |-> <exception name or "none">,       *)
(* value |-> <result>].                                                    *)
(***************************************************************************)
EXTENDS Integers, Sequences, FiniteSets, TLC

\* ------------------------------------------------------------- bounds
\* Longest destination list handed to plan_route.
MaxDest == 2
\* Longest distance (km) handed to calculate_emissions directly.
MaxKm == 3

\* -------------------------------------------------- float arithmetic
Abs(a) == IF a < 0 THEN -a ELSE a

RECURSIVE GCD(_, _)
GCD(a, b) == IF b = 0 THEN a ELSE GCD(b, a % b)

\* The quotient n / d (d # 0) of two integers as a float.
Rat(n, d) ==
    LET g == GCD(Abs(n), Abs(d))
        s == IF d < 0 THEN -1 ELSE 1
    IN  [num |-> (s * n) \div g, den |-> (s * d) \div g]

FromInt(n) == [num |-> n, den |-> 1]
RatMul(p, q) == Rat(p.num * q.num, p.den * q.den)
RatAdd(p, q) == Rat(p.num * q.den + q.num * p.den, p.den * q.den)
\* p <= q, compared over the least common denominator.
RatLe(p, q) ==
    LET g == GCD(p.den, q.den)
    IN  p.num * (q.den \div g) <= q.num * (p.den \div g)

\* dict.get(key, default)
DictGet(m, key, default) == IF key \in DOMAIN m THEN m[key] ELSE default

\* ------------------------------------------------------------ models
Location(lat, lon, address) == [lat |-> lat, lon |-> lon, address |-> address]

Vehicle(id, fuel_type, cargo_capacity, current_load) ==
    [id |-> id, type |-> "truck", fuel_type |-> fuel_type, fuel_efficiency |-> 8,
     cargo_capacity |-> cargo_capacity, current_load |-> current_load]

RouteSegment(start, end, distance, duration, traffic_delay, emissions) ==
    [start |-> start, end |-> end, distance |-> distance, duration |-> duration,
     traffic_delay |-> traffic_delay, emissions |-> emissions]

Route(segments, total_distance, total_duration, total_emissions, weather_conditions, air_quality) ==
    [segments |-> segments, total_distance |-> total_distance,
     total_duration |-> total_duration, total_emissions |-> total_emissions,
     weather_conditions |-> weather_conditions, air_quality |-> air_quality]

\* ------------------------------------------------ EmissionCalculator
\* self.emission_factors (kg CO2/km)
emission_factors ==
    [diesel_truck |-> Rat(9, 10), electric_truck |-> Rat(0, 10), hybrid_truck |-> Rat(6, 10)]

\* Lines 18-23: the weather adjustment.
weather_factor(weather_conditions) ==
    LET w0 == FromInt(1)
        w1 == IF DictGet(weather_conditions, "precipitation", 0) > 0
              THEN RatMul(w0, Rat(11, 10)) ELSE w0
        w2 == IF DictGet(weather_conditions, "wind_speed", 0) > 20
              THEN RatMul(w1, Rat(115, 100)) ELSE w1
    IN  w2

\* The load adjustment with the sign of the surcharge slipped:
\* 1.0 - (current_load / cargo_capacity) * 0.2.
load_factor_minus(vehicle) ==
    IF vehicle.cargo_capacity = 0
    THEN [exc |-> "ZeroDivisionError", value |-> FromInt(0)]
    ELSE [exc |-> "none",
          value |-> RatAdd(FromInt(1),
                           RatMul(Rat(-vehicle.current_load, vehicle.cargo_capacity),
                                  Rat(2, 10)))]

\* Line 26: the load adjustment; the division raises on a zero divisor.
load_factor(vehicle) ==
    IF vehicle.cargo_capacity = 0
    THEN [exc |-> "ZeroDivisionError", value |-> FromInt(0)]
    ELSE [exc |-> "none",
          value |-> RatAdd(FromInt(1),
                           RatMul(Rat(vehicle.current_load, vehicle.cargo_capacity),
                                  Rat(2, 10)))]

\* The variant of calculate_emissions that adds the weather surcharges
\* (+10%, +15%) instead of multiplying them.
calculate_emissions_additive(vehicle, distance, weather_conditions) ==
    LET base_emission ==
            RatMul(distance,
                   DictGet(emission_factors, vehicle.fuel_type \o "_truck", FromInt(0)))
        wf == RatAdd(FromInt(1),
                RatAdd(IF DictGet(weather_conditions, "precipitation", 0) > 0
                       THEN Rat(1, 10) ELSE FromInt(0),
                       IF DictGet(weather_conditions, "wind_speed", 0) > 20
                       THEN Rat(15, 100) ELSE FromInt(0)))
        lf == load_factor(vehicle)
    IN  IF lf.exc # "none"
        THEN [exc |-> lf.exc, value |-> FromInt(0)]
        ELSE [exc |-> "none", value |-> RatMul(RatMul(base_emission, wf), lf.value)]

calculate_emissions(vehicle, distance, weather_conditions) ==
    LET base_emission ==
            RatMul(distance,
                   DictGet(emission_factors, vehicle.fuel_type \o "_truck", FromInt(0)))
        wf == weather_factor(weather_conditions)
        lf == load_factor(vehicle)
    IN  IF lf.exc # "none"
        THEN [exc |-> lf.exc, value |-> FromInt(0)]
        ELSE [exc |-> "none", value |-> RatMul(RatMul(base_emission, wf), lf.value)]

\* ------------------------------------------------------- api_clients
\* The logging calls of the three loggers, in program order.
LogRecord(name, level, event) == [name |-> name, level |-> level, event |-> event]

TrafficJson(len, time, delay) ==
    [routes |-> << [summary |-> [lengthInMeters |-> len, travelTimeInSeconds |-> time,
                                 trafficDelayInSeconds |-> delay]] >>]

\* What session.get / raise_for_status / response.json() can come to for a
\* routing request: a decoded body, a timeout, or any other request failure
\* (connection error, HTTP error status, retries exhausted).
TrafficNet ==
    { [kind |-> "ok", json |-> TrafficJson(12500, 900, 60)],
      [kind |-> "ok", json |-> [routes |-> << >>]],
      [kind |-> "ok", json |-> [routes |-> << [summary |-> [lengthInMeters |-> 12500]] >>]],
      [kind |-> "ok", json |-> [detailedError |-> "x"]],
      [kind |-> "Timeout", json |-> [detailedError |-> "x"]],
      [kind |-> "RequestException", json |-> [detailedError |-> "x"]] }

\* The same for an air-quality request.
WeatherNet ==
    { [kind |-> "ok", json |-> [weather |-> [precipitation |-> 5, wind_speed |-> 25,
                                             temperature |-> 12],
                                air |-> [aqi |-> 120]]],
      [kind |-> "ok", json |-> [air |-> [aqi |-> 70]]],
      [kind |-> "ok", json |-> [weather |-> [temperature |-> 30]]],
      [kind |-> "Timeout", json |-> [air |-> [aqi |-> 70]]],
      [kind |-> "RequestException", json |-> [air |-> [aqi |-> 70]]] }

\* A fallback route of 5 km instead of 50 km.
get_simulated_route_data_short(start, end) == TrafficJson(5000, 3600, 300)

get_simulated_route_data(start, end) == TrafficJson(50000, 3600, 300)

get_simulated_weather_data ==
    [weather |-> [precipitation |-> 0, wind_speed |-> 10, temperature |-> 25],
     air |-> [aqi |-> 50]]

\* TomTomAPI.get_data: the try body returns the decoded body; Timeout and
\* RequestException are logged and answered with the simulated route.
TomTomAPI_get_data(start, end, net) ==
    CASE net.kind = "ok" ->
           [exc |-> "none", value |-> net.json, logged |-> << >>]
      [] net.kind = "Timeout" ->
           [exc |-> "none", value |-> get_simulated_route_data(start, end),
            logged |-> << LogRecord("TomTomAPI", "ERROR", "Timeout connecting to TomTom API") >>]
      [] net.kind = "RequestException" ->
           [exc |-> "none", value |-> get_simulated_route_data(start, end),
            logged |-> << LogRecord("TomTomAPI", "ERROR", "Error connecting to TomTom API") >>]
      [] OTHER ->
           [exc |-> net.kind, value |-> net.json, logged |-> << >>]

WeatherAPI_get_data(location, net) ==
    CASE net.kind = "ok" ->
           [exc |-> "none", value |-> net.json, logged |-> << >>]
      [] net.kind = "Timeout" ->
           [exc |-> "none", value |-> get_simulated_weather_data,
            logged |-> << LogRecord("WeatherAPI", "ERROR", "Timeout connecting to Weather API") >>]
      [] net.kind = "RequestException" ->
           [exc |-> "none", value |-> get_simulated_weather_data,
            logged |-> << LogRecord("WeatherAPI", "ERROR", "Error connecting to Weather API") >>]
      [] OTHER ->
           [exc |-> net.kind, value |-> net.json, logged |-> << >>]

\* -------------------------------------------------------------- state
VARIABLES
    pc,                \* position in plan_route / optimize_route
    vehicle, start, destinations,      \* the arguments of plan_route
    possible_routes, current_location, \* locals of optimize_route
    idx,               \* position of the for loop in destinations (1-based)
    traffic_data, weather_data, segment,
    exc,               \* the exception in flight ("none" when there is none)
    calls,             \* the provider calls made so far, in order
    log,               \* the log records emitted so far, in order
    opt_return,        \* what optimize_route returned
    plan_result,       \* what plan_route returned
    ec_pc, ec_vehicle, ec_weather, ec_d1, ec_d2, ec_r1, ec_r2
                       \* direct calls of calculate_emissions

route_vars == << pc, vehicle, start, destinations, possible_routes, current_location,
                 idx, traffic_data, weather_data, segment, exc, calls, log,
                 opt_return, plan_result >>
ec_vars == << ec_pc, ec_vehicle, ec_weather, ec_d1, ec_d2, ec_r1, ec_r2 >>
vars == << route_vars, ec_vars >>

None == [none |-> TRUE]

\* ------------------------------------------------------------- inputs
\* The stops a destination list is drawn from.
Locations == { Location(18, 79, "Warehouse"), Location(13, 80, "Port") }

Starts == { Location(17, 78, "Depot"), Location(13, 80, "Port") }

\* The sequences over S of length at most n.
SeqsUpTo(S, n) == UNION { [1..k -> S] : k \in 0..n }

Vehicles ==
    { Vehicle("V1", "diesel", 1000, 500),
      Vehicle("V2", "hybrid", 2000, 2000),
      Vehicle("V3", "diesel", 0, 0) }

\* ------------------------------------------------- RouteOptimizer steps
\* Lines 47-54: RouteSegment(...) built from the traffic response; a missing
\* key or an empty routes list raises the subscript's own exception.
build_segment(current, destination, td) ==
    IF "routes" \notin DOMAIN td
    THEN [exc |-> "KeyError", value |-> None]
    ELSE IF Len(td.routes) = 0
    THEN [exc |-> "IndexError", value |-> None]
    ELSE IF "summary" \notin DOMAIN td.routes[1]
    THEN [exc |-> "KeyError", value |-> None]
    ELSE LET summary == td.routes[1].summary
         IN  IF \/ "lengthInMeters" \notin DOMAIN summary
                \/ "travelTimeInSeconds" \notin DOMAIN summary
                \/ "trafficDelayInSeconds" \notin DOMAIN summary
             THEN [exc |-> "KeyError", value |-> None]
             ELSE [exc |-> "none",
                   value |-> RouteSegment(current, destination,
                                          Rat(summary.lengthInMeters, 1000),
                                          Rat(summary.travelTimeInSeconds, 60),
                                          Rat(summary.trafficDelayInSeconds, 60),
                                          FromInt(0))]

\* The route built with the placeholder the segment was created with as its
\* total_emissions.
build_route_placeholder(seg, wd) ==
    IF "weather" \notin DOMAIN wd \/ "air" \notin DOMAIN wd
    THEN [exc |-> "KeyError", value |-> None]
    ELSE [exc |-> "none",
          value |-> Route(<< seg >>, seg.distance, seg.duration, FromInt(0),
                          wd.weather, wd.air)]

\* Lines 64-71: Route(...) around the one segment.
build_route(seg, wd) ==
    IF "weather" \notin DOMAIN wd \/ "air" \notin DOMAIN wd
    THEN [exc |-> "KeyError", value |-> None]
    ELSE [exc |-> "none",
          value |-> Route(<< seg >>, seg.distance, seg.duration, seg.emissions,
                          wd.weather, wd.air)]

Raise(e) ==
    /\ exc' = e
    /\ pc' = "raised"

Init ==
    /\ pc = "plan_route"
    /\ vehicle \in Vehicles
    /\ start \in Starts
    /\ destinations \in SeqsUpTo(Locations, MaxDest)
    /\ possible_routes = << >>
    /\ current_location = None
    /\ idx = 1
    /\ traffic_data = None
    /\ weather_data = None
    /\ segment = None
    /\ exc = "none"
    /\ calls = << >>
    /\ log = << >>
    /\ opt_return = None
    /\ plan_result = None
    /\ ec_pc = "off"
    /\ ec_vehicle = None
    /\ ec_weather = None
    /\ ec_d1 = None
    /\ ec_d2 = None
    /\ ec_r1 = None
    /\ ec_r2 = None

\* optimize_route fetching the weather at the start before its loop.
PlanRouteEnter_PrefetchStart ==
    /\ pc = "plan_route"
    /\ log' = Append(log, LogRecord("DynamicRoutingSystem", "INFO", "Planning route"))
    /\ possible_routes' = << >>
    /\ current_location' = start
    /\ idx' = 1
    /\ pc' = "for"
    /\ \E net \in WeatherNet :
         LET r == WeatherAPI_get_data(start, net)
         IN  calls' = Append(calls, [api |-> "weather", args |-> << start >>,
                                    net |-> net.kind, exc |-> r.exc, value |-> r.value])
    /\ UNCHANGED << vehicle, start, destinations, traffic_data, weather_data, segment,
                    exc, opt_return, plan_result, ec_vars >>

\* app.py 55-56 and route_optimizer.py 38-39: plan_route logs and enters
\* optimize_route, which sets up its locals.
PlanRouteEnter ==
    /\ pc = "plan_route"
    /\ log' = Append(log, LogRecord("DynamicRoutingSystem", "INFO", "Planning route"))
    /\ possible_routes' = << >>
    /\ current_location' = start
    /\ idx' = 1
    /\ pc' = "for"
    /\ UNCHANGED << vehicle, start, destinations, traffic_data, weather_data, segment,
                    exc, calls, opt_return, plan_result, ec_vars >>

\* Line 43: the next destination is taken and the traffic provider called.
FetchTraffic ==
    /\ pc = "for"
    /\ idx <= Len(destinations)
    /\ \E net \in TrafficNet :
         LET destination == destinations[idx]
             r == TomTomAPI_get_data(current_location, destination, net)
         IN  /\ calls' = Append(calls, [api |-> "traffic",
                                        args |-> << current_location, destination >>,
                                        net |-> net.kind, exc |-> r.exc,
                                        value |-> r.value])
             /\ log' = log \o r.logged
             /\ IF r.exc # "none"
                THEN Raise(r.exc) /\ UNCHANGED traffic_data
                ELSE /\ traffic_data' = r.value
                     /\ pc' = "weather"
                     /\ UNCHANGED exc
    /\ UNCHANGED << vehicle, start, destinations, possible_routes, current_location, idx,
                    weather_data, segment, opt_return, plan_result, ec_vars >>

\* The weather fetched for the leg's start instead of its destination.
FetchWeather_AtCurrent ==
    /\ pc = "weather"
    /\ \E net \in WeatherNet :
         LET r == WeatherAPI_get_data(current_location, net)
         IN  /\ calls' = Append(calls, [api |-> "weather",
                                        args |-> << current_location >>,
                                        net |-> net.kind, exc |-> r.exc,
                                        value |-> r.value])
             /\ log' = log \o r.logged
             /\ IF r.exc # "none"
                THEN Raise(r.exc) /\ UNCHANGED weather_data
                ELSE /\ weather_data' = r.value
                     /\ pc' = "segment"
                     /\ UNCHANGED exc
    /\ UNCHANGED << vehicle, start, destinations, possible_routes, current_location, idx,
                    traffic_data, segment, opt_return, plan_result, ec_vars >>

\* Line 44: the weather provider is called for the destination.
FetchWeather ==
    /\ pc = "weather"
    /\ \E net \in WeatherNet :
         LET destination == destinations[idx]
             r == WeatherAPI_get_data(destination, net)
         IN  /\ calls' = Append(calls, [api |-> "weather",
                                        args |-> << destination >>,
                                        net |-> net.kind, exc |-> r.exc,
                                        value |-> r.value])
             /\ log' = log \o r.logged
             /\ IF r.exc # "none"
                THEN Raise(r.exc) /\ UNCHANGED weather_data
                ELSE /\ weather_data' = r.value
                     /\ pc' = "segment"
                     /\ UNCHANGED exc
    /\ UNCHANGED << vehicle, start, destinations, possible_routes, current_location, idx,
                    traffic_data, segment, opt_return, plan_result, ec_vars >>

\* Lines 47-54: the segment, with emissions 0 for now.
BuildSegment ==
    /\ pc = "segment"
    /\ LET r == build_segment(current_location, destinations[idx], traffic_data)
       IN  IF r.exc # "none"
           THEN Raise(r.exc) /\ UNCHANGED segment
           ELSE /\ segment' = r.value
                /\ pc' = "emissions"
                /\ UNCHANGED exc
    /\ UNCHANGED << vehicle, start, destinations, possible_routes, current_location, idx,
                    traffic_data, weather_data, calls, log, opt_return, plan_result,
                    ec_vars >>

\* Lines 57-61: segment.emissions = calculate_emissions(vehicle,
\* segment.distance, weather_data["weather"]).
CalcEmissions ==
    /\ pc = "emissions"
    /\ IF "weather" \notin DOMAIN weather_data
       THEN Raise("KeyError") /\ UNCHANGED segment
       ELSE LET r == calculate_emissions(vehicle, segment.distance, weather_data.weather)
            IN  IF r.exc # "none"
                THEN Raise(r.exc) /\ UNCHANGED segment
                ELSE /\ segment' = [segment EXCEPT !.emissions = r.value]
                     /\ pc' = "route"
                     /\ UNCHANGED exc
    /\ UNCHANGED << vehicle, start, destinations, possible_routes, current_location, idx,
                    traffic_data, weather_data, calls, log, opt_return, plan_result,
                    ec_vars >>

\* The loop without line 74: the cursor stays at the start.
BuildRoute_NoAdvance ==
    /\ pc = "route"
    /\ LET r == build_route(segment, weather_data)
       IN  IF r.exc # "none"
           THEN Raise(r.exc) /\ UNCHANGED << possible_routes, idx >>
           ELSE /\ possible_routes' = Append(possible_routes, r.value)
                /\ idx' = idx + 1
                /\ pc' = "for"
                /\ UNCHANGED exc
    /\ UNCHANGED << vehicle, start, destinations, current_location, traffic_data,
                    weather_data, segment, calls, log, opt_return, plan_result, ec_vars >>

\* Lines 64-74: the route is built and appended, the cursor advanced.
BuildRoute ==
    /\ pc = "route"
    /\ LET r == build_route(segment, weather_data)
       IN  IF r.exc # "none"
           THEN Raise(r.exc) /\ UNCHANGED << possible_routes, current_location, idx >>
           ELSE /\ possible_routes' = Append(possible_routes, r.value)
                /\ current_location' = destinations[idx]
                /\ idx' = idx + 1
                /\ pc' = "for"
                /\ UNCHANGED exc
    /\ UNCHANGED << vehicle, start, destinations, traffic_data, weather_data, segment,
                    calls, log, opt_return, plan_result, ec_vars >>

\* Line 76: the loop is exhausted and optimize_route returns.
OptimizeReturn ==
    /\ pc = "for"
    /\ idx > Len(destinations)
    /\ opt_return' = possible_routes
    /\ pc' = "returned"
    /\ UNCHANGED << vehicle, start, destinations, possible_routes, current_location, idx,
                    traffic_data, weather_data, segment, exc, calls, log, plan_result,
                    ec_vars >>

\* app.py 56-58: routes = <what optimize_route returned>; log; return routes.
PlanRouteReturn ==
    /\ pc = "returned"
    /\ log' = Append(log, LogRecord("DynamicRoutingSystem", "INFO",
                                    "Successfully planned route"))
    /\ plan_result' = [exc |-> "none", value |-> opt_return]
    /\ pc' = "done"
    /\ UNCHANGED << vehicle, start, destinations, possible_routes, current_location, idx,
                    traffic_data, weather_data, segment, exc, calls, opt_return, ec_vars >>

\* The handler returning the routes built before the failure.
PlanRouteExcept_Partial ==
    /\ pc = "raised"
    /\ log' = Append(log, LogRecord("DynamicRoutingSystem", "ERROR", "Error planning route"))
    /\ plan_result' = [exc |-> "none", value |-> possible_routes]
    /\ pc' = "done"
    /\ UNCHANGED << vehicle, start, destinations, possible_routes, current_location, idx,
                    traffic_data, weather_data, segment, exc, calls, opt_return, ec_vars >>

\* app.py 59-62: except Exception: log the error and return [].
PlanRouteExcept ==
    /\ pc = "raised"
    /\ log' = Append(log, LogRecord("DynamicRoutingSystem", "ERROR", "Error planning route"))
    /\ plan_result' = [exc |-> "none", value |-> << >>]
    /\ pc' = "done"
    /\ UNCHANGED << vehicle, start, destinations, possible_routes, current_location, idx,
                    traffic_data, weather_data, segment, exc, calls, opt_return, ec_vars >>

Next ==
    \/ PlanRouteEnter
    \/ FetchTraffic
    \/ FetchWeather
    \/ BuildSegment
    \/ CalcEmissions
    \/ BuildRoute
    \/ OptimizeReturn
    \/ PlanRouteReturn
    \/ PlanRouteExcept

Spec == Init /\ [][Next]_vars

\* ------------------------------------- calculate_emissions called directly
EcFuelTypes == { "diesel", "electric", "hybrid", "petrol", "Diesel" }
EcCapacities == { -1000, 0, 1000, 2000 }
EcLoads == { -6000, -5000, -1000, 0, 500, 1000, 6000 }
EcVehicles ==
    { Vehicle("V", f, c, l) : f \in EcFuelTypes, c \in EcCapacities, l \in EcLoads }

\* Weather mappings with any of the two keys present or missing.
EcReadings == { -1, 0, 20, 25 }
EcWeathers == UNION { [K -> EcReadings] : K \in SUBSET { "precipitation", "wind_speed" } }

EcDistances == { FromInt(k) : k \in 0..MaxKm }

InitEc ==
    /\ pc = "off"
    /\ vehicle = None
    /\ start = None
    /\ destinations = << >>
    /\ possible_routes = << >>
    /\ current_location = None
    /\ idx = 1
    /\ traffic_data = None
    /\ weather_data = None
    /\ segment = None
    /\ exc = "none"
    /\ calls = << >>
    /\ log = << >>
    /\ opt_return = None
    /\ plan_result = None
    /\ ec_pc = "first"
    /\ ec_vehicle \in EcVehicles
    /\ ec_weather \in EcWeathers
    /\ ec_d1 \in EcDistances
    /\ ec_d2 \in EcDistances
    /\ ec_r1 = None
    /\ ec_r2 = None

\* calculate_emissions(vehicle, d1, weather)
EcCalcFirst ==
    /\ ec_pc = "first"
    /\ ec_r1' = calculate_emissions(ec_vehicle, ec_d1, ec_weather)
    /\ ec_pc' = "second"
    /\ UNCHANGED << route_vars, ec_vehicle, ec_weather, ec_d1, ec_d2, ec_r2 >>

\* calculate_emissions(vehicle, d2, weather), same vehicle and weather
EcCalcSecond ==
    /\ ec_pc = "second"
    /\ ec_r2' = calculate_emissions(ec_vehicle, ec_d2, ec_weather)
    /\ ec_pc' = "done"
    /\ UNCHANGED << route_vars, ec_vehicle, ec_weather, ec_d1, ec_d2, ec_r1 >>

NextEc ==
    \/ EcCalcFirst
    \/ EcCalcSecond

SpecEc == InitEc /\ [][NextEc]_vars

\* ====================================================== properties
\* optimize_route has returned (and plan_route may have returned after it).
Returned == pc = "returned" \/ (pc = "done" /\ exc = "none")

\* The stop the i-th leg starts from.
LegStart(i) == IF i = 1 THEN start ELSE destinations[i - 1]

RECURSIVE SumDistance(_)
SumDistance(segs) ==
    IF segs = << >> THEN FromInt(0) ELSE RatAdd(Head(segs).distance, SumDistance(Tail(segs)))

RECURSIVE SumDuration(_)
SumDuration(segs) ==
    IF segs = << >> THEN FromInt(0) ELSE RatAdd(Head(segs).duration, SumDuration(Tail(segs)))

RECURSIVE SumEmissions(_)
SumEmissions(segs) ==
    IF segs = << >> THEN FromInt(0) ELSE RatAdd(Head(segs).emissions, SumEmissions(Tail(segs)))

\* C1: the provider calls made so far are, in order, traffic(start, D1),
\* weather(D1), traffic(D1, D2), weather(D2), ...; and once optimize_route has
\* returned, all n legs were looked up and exactly n routes are returned, the
\* i-th ending at Di.
C1_CallOrderAndRouteCount ==
    /\ Len(calls) <= 2 * Len(destinations)
    /\ \A j \in 1..Len(calls) :
         LET i == (j + 1) \div 2
         IN  IF j % 2 = 1
             THEN calls[j].api = "traffic" /\ calls[j].args = << LegStart(i), destinations[i] >>
             ELSE calls[j].api = "weather" /\ calls[j].args = << destinations[i] >>
    /\ Returned =>
         /\ Len(calls) = 2 * Len(destinations)
         /\ Len(opt_return) = Len(destinations)
         /\ \A i \in 1..Len(opt_return) :
              opt_return[i].segments[Len(opt_return[i].segments)].end = destinations[i]

\* At least two routes returned, the start and the first two stops pairwise different.
C1_Witness ==
    /\ Returned
    /\ Len(destinations) >= 2
    /\ Len(opt_return) = Len(destinations)
    /\ destinations[1] # start
    /\ destinations[1] # destinations[2]
    /\ start # destinations[2]

\* C2: with no destinations no provider is called, nothing is raised, and
\* what optimize_route returns is the empty list.
C2_EmptyInput ==
    destinations = << >> =>
        /\ calls = << >>
        /\ exc = "none"
        /\ pc # "raised"
        /\ Returned => opt_return = << >>

\* plan_route has run to its end on an empty destination list.
C2_Witness == destinations = << >> /\ pc = "done" /\ Returned /\ opt_return = << >>

\* The totals of every route of rs are the sums over its segments, and each
\* segment's emissions are the calculator's value for its distance and the
\* route's weather.
TotalsAreSums(rs) ==
    \A i \in 1..Len(rs) :
        LET r == rs[i]
        IN  /\ r.total_distance = SumDistance(r.segments)
            /\ r.total_duration = SumDuration(r.segments)
            /\ r.total_emissions = SumEmissions(r.segments)
            /\ \A k \in 1..Len(r.segments) :
                 LET e == calculate_emissions(vehicle, r.segments[k].distance,
                                              r.weather_conditions)
                 IN  e.exc = "none" /\ r.segments[k].emissions = e.value

\* C3: every route built, and every route returned, has totals equal to the
\* sums of its segments' fields, the emissions being the computed ones.
C3_TotalsEqualSegmentSums ==
    /\ TotalsAreSums(possible_routes)
    /\ Returned => TotalsAreSums(opt_return)

C3_Witness ==
    /\ Returned
    /\ Len(opt_return) >= 2
    /\ opt_return[1].total_emissions.num > 0
    /\ opt_return[2].total_emissions = SumEmissions(opt_return[2].segments)

TrafficFailed(c) == c.api = "traffic" /\ c.net \in { "Timeout", "RequestException" }

\* C4: a traffic request that times out or fails raises nothing and yields
\* 50000 m, 3600 s, 300 s; and when every traffic request failed, every segment
\* of every returned route is 50 km and 60 minutes long.
C4_TrafficFallback ==
    /\ \A j \in 1..Len(calls) :
         TrafficFailed(calls[j]) =>
             /\ calls[j].exc = "none"
             /\ calls[j].value = TrafficJson(50000, 3600, 300)
    /\ (Returned /\ \A j \in 1..Len(calls) : calls[j].api = "traffic" => TrafficFailed(calls[j])) =>
         \A i \in 1..Len(opt_return) :
             \A k \in 1..Len(opt_return[i].segments) :
                 /\ opt_return[i].segments[k].distance = FromInt(50)
                 /\ opt_return[i].segments[k].duration = FromInt(60)

C4_Witness ==
    /\ Returned
    /\ Len(opt_return) >= 2
    /\ \A j \in 1..Len(calls) : calls[j].api = "traffic" => TrafficFailed(calls[j])
    /\ \E j \in 1..Len(calls) : calls[j].api = "traffic" /\ calls[j].net = "Timeout"
    /\ \E j \in 1..Len(calls) : calls[j].api = "traffic" /\ calls[j].net = "RequestException"
    /\ \A i \in 1..Len(opt_return) : opt_return[i].segments[1].distance = FromInt(50)

\* A provider response that lacks a field optimize_route reads.
MalformedResponse(c) ==
    IF c.api = "traffic"
    THEN \/ "routes" \notin DOMAIN c.value
         \/ Len(c.value.routes) = 0
         \/ "summary" \notin DOMAIN c.value.routes[1]
         \/ ~({ "lengthInMeters", "travelTimeInSeconds", "trafficDelayInSeconds" }
                \subseteq DOMAIN c.value.routes[1].summary)
    ELSE ~({ "weather", "air" } \subseteq DOMAIN c.value)

\* C5: after a malformed provider response, planning ends with a
\* DataFormatError that plan_route lets through to its caller.
C5_MalformedIsDataFormatError ==
    (pc = "done" /\ \E j \in 1..Len(calls) : MalformedResponse(calls[j])) =>
        /\ exc = "DataFormatError"
        /\ plan_result.exc = "DataFormatError"

\* C6: when planning failed, plan_route returns the empty list and its last
\* log record is the error; whatever plan_route returns is empty or has one
\* route per destination.
C6_NoPartialPlan ==
    pc = "done" =>
        /\ plan_result.exc = "none"
        /\ exc # "none" =>
             /\ plan_result.value = << >>
             /\ log # << >>
             /\ log[Len(log)] = LogRecord("DynamicRoutingSystem", "ERROR", "Error planning route")
        /\ plan_result.value = << >> \/ Len(plan_result.value) = Len(destinations)

\* Planning failed at the second destination or later, one route already built.
C6_Witness ==
    /\ pc = "done"
    /\ exc # "none"
    /\ Len(possible_routes) >= 1
    /\ plan_result.value = << >>

\* C10 for the list rs: route i has the one segment LegStart(i) -> Di, and its
\* weather, air quality and emissions come from the weather call made for Di.
LegsAndWeather(rs) ==
    \A i \in 1..Len(rs) :
        LET r == rs[i]
            seg == r.segments[1]
            wc == calls[2 * i]
        IN  /\ Len(r.segments) = 1
            /\ seg.end = destinations[i]
            /\ seg.start = LegStart(i)
            /\ i > 1 => seg.start = rs[i - 1].segments[1].end
            /\ wc.api = "weather"
            /\ wc.args = << seg.end >>
            /\ r.weather_conditions = wc.value.weather
            /\ r.air_quality = wc.value.air
            /\ seg.emissions = calculate_emissions(vehicle, seg.distance, wc.value.weather).value

\* C10: each route holds exactly the leg ending at its destination, chained to
\* the previous leg, with the weather data fetched for that destination.
C10_OneLegPerRoute ==
    /\ LegsAndWeather(possible_routes)
    /\ Returned => LegsAndWeather(opt_return)

\* Two legs with different weather at the two stops.
C10_Witness ==
    /\ Returned
    /\ Len(opt_return) >= 2
    /\ destinations[1] # destinations[2]
    /\ opt_return[1].weather_conditions # opt_return[2].weather_conditions
    /\ opt_return[2].segments[1].start = opt_return[1].segments[1].end

\* ------------------------------------- properties of calculate_emissions
\* The documented factor table, in tenths of kg CO2/km.
DocFactorTenths(fuel_type) ==
    CASE fuel_type = "diesel" -> 9
      [] fuel_type = "electric" -> 0
      [] fuel_type = "hybrid" -> 6
      [] OTHER -> 0

\* The documented weather multiplier, in 200ths: 1.10 for rain, 1.15 for high
\* wind, 1.265 for both, a missing key counting as 0.
DocWeather200ths(w) ==
    LET rain == IF "precipitation" \in DOMAIN w THEN w.precipitation > 0 ELSE FALSE
        wind == IF "wind_speed" \in DOMAIN w THEN w.wind_speed > 20 ELSE FALSE
    IN  CASE rain /\ wind -> 253
          [] rain /\ ~wind -> 220
          [] ~rain /\ wind -> 230
          [] OTHER -> 200

\* distance * factor * W * L with L = 1 + (load / capacity) * 0.2
\* = (5 * capacity + load) / (5 * capacity).
DocEmission(v, d, w) ==
    Rat(d.num * DocFactorTenths(v.fuel_type) * DocWeather200ths(w)
              * (5 * v.cargo_capacity + v.current_load),
        d.den * 10 * 200 * 5 * v.cargo_capacity)

\* distance * factor * W, the value under load multiplier 1.0.
DocEmissionUnloaded(v, d, w) ==
    Rat(d.num * DocFactorTenths(v.fuel_type) * DocWeather200ths(w), d.den * 10 * 200)

\* C7: for a vehicle whose cargo_capacity is not positive, calculate_emissions
\* fails with a ConfigurationError or returns the value under load multiplier
\* 1.0 (it never divides by the zero capacity).
C7_CapacityGuarded ==
    (ec_pc # "first" /\ ec_vehicle.cargo_capacity <= 0) =>
        \/ ec_r1.exc = "ConfigurationError"
        \/ /\ ec_r1.exc = "none"
           /\ ec_r1.value = DocEmissionUnloaded(ec_vehicle, ec_d1, ec_weather)

\* C8: for cargo_capacity > 0 and distance >= 0, calculate_emissions returns
\* distance * factor(fuel_type) * W * L.
C8_EmissionFormula ==
    ec_vehicle.cargo_capacity > 0 =>
        /\ ec_pc \in { "second", "done" } =>
             ec_r1 = [exc |-> "none", value |-> DocEmission(ec_vehicle, ec_d1, ec_weather)]
        /\ ec_pc = "done" =>
             ec_r2 = [exc |-> "none", value |-> DocEmission(ec_vehicle, ec_d2, ec_weather)]

\* A hybrid at half load in rain and high wind: 3 * 0.6 * 1.265 * 1.1 kg.
C8_Witness ==
    /\ ec_pc = "done"
    /\ ec_vehicle.fuel_type = "hybrid"
    /\ ec_vehicle.cargo_capacity = 1000
    /\ ec_vehicle.current_load = 500
    /\ ec_weather = [precipitation |-> 25, wind_speed |-> 25]
    /\ ec_d1 = FromInt(3)
    /\ ec_r1.value = Rat(250470, 100000)

\* C9 as stated: for every vehicle and weather for which the two calls return,
\* d1 <= d2 implies emissions(d1) <= emissions(d2).
C9_MonotoneForEveryLoad ==
    (ec_pc = "done" /\ ec_r1.exc = "none" /\ ec_r2.exc = "none" /\ RatLe(ec_d1, ec_d2)) =>
        RatLe(ec_r1.value, ec_r2.value)

\* current_load / cargo_capacity >= -5, that is, a load multiplier >= 0.
LoadRatioAtLeastMinus5(v) ==
    /\ v.cargo_capacity # 0
    /\ IF v.cargo_capacity > 0
       THEN v.current_load >= -5 * v.cargo_capacity
       ELSE v.current_load <= -5 * v.cargo_capacity

\* C9 amended: the same, for the vehicles with current_load / cargo_capacity
\* >= -5 (inside or outside 0..cargo_capacity).
C9_MonotoneForNonNegativeLoadFactor ==
    (/\ ec_pc = "done" /\ ec_r1.exc = "none" /\ ec_r2.exc = "none"
     /\ RatLe(ec_d1, ec_d2) /\ LoadRatioAtLeastMinus5(ec_vehicle)) =>
        RatLe(ec_r1.value, ec_r2.value)

\* An overloaded diesel (load 6000 kg on capacity 1000 kg): strictly more
\* emissions over the longer distance.
C9_Witness ==
    /\ ec_pc = "done"
    /\ ec_vehicle.fuel_type = "diesel"
    /\ ec_vehicle.cargo_capacity = 1000
    /\ ec_vehicle.current_load = 6000
    /\ ec_d1 = FromInt(1)
    /\ ec_d2 = FromInt(2)
    /\ ec_r1.exc = "none" /\ ec_r2.exc = "none"
    /\ ~RatLe(ec_r2.value, ec_r1.value)

=============================================================================
